---- MODULE Spec2Model ----
(***************************************************************************)
(* A model of the persistent naive Bayes classifier of nb_classifier.py:    *)
(* ClassifierDB (a Kyoto Cabinet key-value store of counters, addressed by  *)
(* keys formatted from string templates) and NBC (training and              *)
(* classification on top of those counters).                                *)
(*                                                                          *)
(* Strings are sequences of one-character strings, so that formatting a key *)
(* template, prefix matching and prefix stripping are computed as the code  *)
(* computes them.  Python floats are exact rationals [n, d] with d > 0,     *)
(* kept in lowest terms; d = 0 stands for a raised ZeroDivisionError.       *)
(***************************************************************************)
EXTENDS Integers, Sequences, FiniteSets

VARIABLES
    store,     \* the records of the database file: key -> stored integer
    mode,      \* how the handle is open: "writer", "reader" or "closed"
    pc,        \* per thread: "idle", or "run" inside a train call
    tr,        \* per thread: the arguments and loop indices of its train call
    calls,     \* number of train calls started
    occ,       \* history: occ[f][c] = occurrences of f given to train for c
    catDocs,   \* history: catDocs[c] = times c was a category argument
    docs,      \* history: category arguments over all train calls
    catIncr,   \* history: categories whose counter has been incremented
    cl,        \* the classify call in progress: arguments, position, locals
    result     \* outcome of the last operation, until the store is written

vars == <<store, mode, pc, tr, calls, occ, catDocs, docs, catIncr, cl, result>>

----------------------------------------------------------------------------
(* Bounds and input domains *)

MaxTrain == 2
MaxLimit == 2

Threads == {1, 2}

Dot == <<".">>

FeatureNames == {<<"a">>, <<"b">>, <<"a", ".", "b">>}

CategoryNames == {<<"s">>, <<"h">>, <<"b", ".", "s">>}

\* feature sequences given to train
TrainDocuments ==
    {<<>>, <<<<"a">>>>, <<<<"b">>>>, <<<<"a">>, <<"a">>>>, <<<<"a", ".", "b">>>>,
     <<<<"a">>, <<"a", ".", "b">>>>}

\* category arguments of a train call: none, one, two, one repeated
CategoryArgs ==
    {<<>>, <<<<"s">>>>, <<<<"h">>>>, <<<<"b", ".", "s">>>>,
     <<<<"s">>, <<"h">>>>, <<<<"s">>, <<"s">>>>}

\* category arguments where classification or reopening is explored
FewCategoryArgs ==
    {<<<<"s">>>>, <<<<"b", ".", "s">>>>, <<<<"s">>, <<"h">>>>}

\* documents trained where classification or reopening is explored
Documents ==
    {<<>>, <<<<"a">>>>, <<<<"a", ".", "b">>>>}

\* documents classified
Queries ==
    {<<>>, <<<<"a", ".", "b">>>>}

HasDot(s) == \E i \in 1..Len(s) : s[i] = "."

----------------------------------------------------------------------------
(* Exact rationals standing for the floats of the code *)

RECURSIVE GCD(_, _)
GCD(a, b) == IF b = 0 THEN a ELSE GCD(b, a % b)

Abs(x) == IF x < 0 THEN -x ELSE x

ZeroDivisionError == [n |-> 0, d |-> 0]

Raised(r) == r.d = 0

Rat(n, d) ==
    IF d = 0 THEN ZeroDivisionError
    ELSE LET g == GCD(Abs(n), Abs(d))
             s == IF d < 0 THEN -1 ELSE 1
         IN  [n |-> (s * n) \div g, d |-> (s * d) \div g]

RInt(k) == Rat(k, 1)

RAdd(x, y) ==
    IF Raised(x) \/ Raised(y) THEN ZeroDivisionError
    ELSE Rat(x.n * y.d + y.n * x.d, x.d * y.d)

RMul(x, y) ==
    IF Raised(x) \/ Raised(y) THEN ZeroDivisionError
    ELSE Rat(x.n * y.n, x.d * y.d)

RDiv(x, y) ==
    IF Raised(x) \/ Raised(y) THEN ZeroDivisionError
    ELSE Rat(x.n * y.d, x.d * y.n)

RLess(x, y) == x.n * y.d < y.n * x.d

RLeq(x, y) == x.n * y.d <= y.n * x.d

----------------------------------------------------------------------------
(* ClassifierDB: key templates *)

category_tmpl == <<"c", "a", "t", "e", "g", "o", "r", "y", ".">>

feature_to_category_tmpl ==
    <<"f", "e", "a", "t", "u", "r", "e", "2", "c", "a", "t", "e", "g", "o", "r", "y", ".">>

total_count_key == <<"t", "o", "t", "a", "l", "-", "c", "o", "u", "n", "t">>

\* 'category.%s' % category
CategoryKey(category) == category_tmpl \o category

\* 'feature2category.%s.%s' % (feature, category)
FeatureCategoryKey(feature, category) ==
    feature_to_category_tmpl \o feature \o Dot \o category

----------------------------------------------------------------------------
(* The key-value store *)

increment_overwrite(db, key, num) ==
    [k \in DOMAIN db \cup {key} |-> IF k = key THEN num ELSE db[k]]

\* kc.DB.increment(key, 1): add to the record, created from 0 when absent
increment(db, key, num) ==
    IF key \in DOMAIN db
    THEN [db EXCEPT ![key] = @ + num]
    ELSE [k \in DOMAIN db \cup {key} |-> IF k = key THEN num ELSE db[k]]

get_int(db, key) == IF key \in DOMAIN db THEN db[key] ELSE 0

IsPrefix(p, s) == Len(p) <= Len(s) /\ SubSeq(s, 1, Len(p)) = p

match_prefix(db, prefix) == {k \in DOMAIN db : IsPrefix(prefix, k)}

RECURSIVE SumOver(_, _)
SumOver(f, S) ==
    IF S = {} THEN 0
    ELSE LET x == CHOOSE y \in S : TRUE IN f[x] + SumOver(f, S \ {x})

----------------------------------------------------------------------------
(* ClassifierDB: counters *)

incr_feature_category_swapped(db, feature, category) ==
    increment(db, FeatureCategoryKey(category, feature), 1)

incr_feature_category(db, feature, category) ==
    increment(db, FeatureCategoryKey(feature, category), 1)

incr_category_keys_no_total(category) == <<CategoryKey(category)>>

incr_category_keys_reversed(category) ==
    <<CategoryKey(category), total_count_key>>

\* the keys incr_category increments, in the order it increments them
incr_category_keys(category) == <<total_count_key, CategoryKey(category)>>

category_count(db, category) == get_int(db, CategoryKey(category))

total_count(db) == get_int(db, total_count_key)

get_feature_category_count(db, feature, category) ==
    get_int(db, FeatureCategoryKey(feature, category))

get_feature_counts(db, feature) ==
    SumOver(db, match_prefix(db, FeatureCategoryKey(feature, <<>>)))

\* the categories yielded, as a set: the keys under the category prefix,
\* with the prefix stripped
iter_categories(db) ==
    LET category_prefix == CategoryKey(<<>>)
        prefix_len == Len(category_prefix)
    IN  {SubSeq(k, prefix_len + 1, Len(k)) : k \in match_prefix(db, category_prefix)}

----------------------------------------------------------------------------
(* NBC: training *)

\* where a train call stands after one more pass of its inner loop
after_feature(call) == [call EXCEPT !.fi = @ + 1]

\* where a train call stands after one more increment of incr_category, the
\* last of which ends the pass of the loop over categories
after_category_increment(call) ==
    IF call.ki < Len(incr_category_keys(call.categories[call.ci]))
    THEN [call EXCEPT !.ki = @ + 1]
    ELSE [call EXCEPT !.ci = @ + 1, !.fi = 1, !.ki = 1]

\* the loop over categories is exhausted: train returns
returns(call) == call.ci > Len(call.categories)

----------------------------------------------------------------------------
(* NBC: probabilities *)

feature_probability(db, feature, category) ==
    LET fcc == get_feature_category_count(db, feature, category)
    IN  IF fcc # 0
        THEN Rat(fcc, category_count(db, category))
        ELSE RInt(0)

default_weight == Rat(1, 1)

\* ((weight * 0.5) + (totals * initial_prob)) / (weight + totals)
weighted_average(initial_prob, totals, weight) ==
    RDiv(RAdd(RMul(weight, Rat(1, 2)), RMul(RInt(totals), initial_prob)),
         RAdd(weight, RInt(totals)))

weighted_probability(db, feature, category, weight) ==
    LET initial_prob == feature_probability(db, feature, category)
        totals == get_feature_counts(db, feature)
    IN  weighted_average(initial_prob, totals, weight)

RECURSIVE document_probability(_, _, _)
document_probability(db, features, category) ==
    IF features = <<>> THEN RInt(1)
    ELSE RMul(document_probability(db, SubSeq(features, 1, Len(features) - 1),
                                   category),
              weighted_probability(db, features[Len(features)], category,
                                   default_weight))

weighted_document_probability_unguarded(db, features, category) ==
    RMul(document_probability(db, features, category),
         Rat(category_count(db, category), total_count(db)))

weighted_document_probability(db, features, category) ==
    IF total_count(db) = 0 THEN RInt(0)
    ELSE LET cat_prob == Rat(category_count(db, category), total_count(db))
             doc_prob == document_probability(db, features, category)
         IN  RMul(doc_prob, cat_prob)

----------------------------------------------------------------------------
(* NBC: classification *)

Perms(S) ==
    {p \in [1..Cardinality(S) -> S] :
        \A i, j \in 1..Cardinality(S) : i # j => p[i] # p[j]}

\* probabilities.items(): one (category, score) pair per category
items(db, features) ==
    {<<c, weighted_document_probability(db, features, c)>> : c \in iter_categories(db)}

sorted_ascending(its) ==
    {p \in Perms(its) :
        \A i, j \in 1..Len(p) : i < j => RLeq(p[i][2], p[j][2])}

\* sorted(items, key=itemgetter(1), reverse=True): the orders a stable sort
\* can return, the dictionary's iteration order being arbitrary
sorted_reverse(its) ==
    {p \in Perms(its) :
        \A i, j \in 1..Len(p) : i < j => RLeq(p[j][2], p[i][2])}

\* seq[:limit]
slice_to(seq, limit) ==
    LET n == Len(seq)
        stop == IF limit >= 0
                THEN (IF limit < n THEN limit ELSE n)
                ELSE (IF n + limit > 0 THEN n + limit ELSE 0)
    IN  SubSeq(seq, 1, stop)

\* sorted(...)[:limit]
ranked(its, limit) == {slice_to(p, limit) : p \in sorted_reverse(its)}

\* the values classify can return from a store that no one writes while it
\* runs, or "raise" when a score raises
classify_results(db, features, limit) ==
    LET its == items(db, features)
    IN  IF \E it \in its : Raised(it[2])
        THEN {}
        ELSE ranked(its, limit)

----------------------------------------------------------------------------
(* History of the train calls made *)

RECURSIVE Count(_, _)
Count(seq, x) ==
    IF seq = <<>> THEN 0
    ELSE (IF Head(seq) = x THEN 1 ELSE 0) + Count(Tail(seq), x)

NoteTrain(o, features, categories) ==
    [f \in FeatureNames |-> [c \in CategoryNames |->
        o[f][c] + Count(features, f) * Count(categories, c)]]

NoteCategories(cd, categories) ==
    [c \in CategoryNames |-> cd[c] + Count(categories, c)]

----------------------------------------------------------------------------
(* State machine *)

EmptyDB == [k \in {} |-> 0]

NoCall ==
    [features |-> <<>>, categories |-> <<>>, ci |-> 1, fi |-> 1, ki |-> 1,
     mode |-> "writer", changed |-> FALSE]

NoResult ==
    [op |-> "none", raised |-> FALSE, changed |-> FALSE, mode |-> "writer",
     features |-> <<>>, limit |-> 0, value |-> <<>>, quiet |-> TRUE]

\* the locals of a classify call: the categories still to score and the one
\* being scored, the scores so far, and inside weighted_document_probability
\* the values read so far; quiet says no increment has reached the store
\* since the call began
NoClassify ==
    [at |-> "idle", features |-> <<>>, limit |-> 0, categories |-> {},
     category |-> <<>>, probabilities |-> {}, cc |-> 0, cat_prob |-> RInt(0),
     fi |-> 1, doc_prob |-> RInt(1), fcc |-> 0, initial_prob |-> RInt(0),
     keys |-> {}, totals |-> 0, quiet |-> TRUE]

\* an increment reaches the store while a classify call is running
Disturbed(c, changed) ==
    IF c.at # "idle" /\ changed THEN [c EXCEPT !.quiet = FALSE] ELSE c

\* what a train call hands its caller: nothing, and no exception.  The
\* database object is built without kc.DB.GEXCEPTIONAL, so an increment on a
\* handle that is not open for writing fails by returning None, and train
\* discards the value of every increment.
TrainResult(call) ==
    [NoResult EXCEPT !.op = "train", !.mode = call.mode,
                     !.changed = call.changed]

\* NBC(filename): a fresh database file opened for writing
Init ==
    /\ store = EmptyDB
    /\ mode = "writer"
    /\ cl = NoClassify
    /\ pc = [t \in Threads |-> "idle"]
    /\ tr = [t \in Threads |-> NoCall]
    /\ calls = 0
    /\ occ = [f \in FeatureNames |-> [c \in CategoryNames |-> 0]]
    /\ catDocs = [c \in CategoryNames |-> 0]
    /\ docs = 0
    /\ catIncr = {}
    /\ result = NoResult

\* a thread enters NBC.train(features, *categories); with no category the
\* loop is empty and the call returns at once
train_begin(t, features, categories) ==
    /\ pc[t] = "idle"
    /\ calls < MaxTrain
    /\ calls' = calls + 1
    /\ occ' = NoteTrain(occ, features, categories)
    /\ catDocs' = NoteCategories(catDocs, categories)
    /\ docs' = docs + Len(categories)
    /\ LET call == [NoCall EXCEPT !.features = features,
                                  !.categories = categories, !.mode = mode]
       IN  IF returns(call)
           THEN /\ result' = TrainResult(call)
                /\ UNCHANGED <<pc, tr>>
           ELSE /\ tr' = [tr EXCEPT ![t] = call]
                /\ pc' = [pc EXCEPT ![t] = "run"]
                /\ UNCHANGED result
    /\ UNCHANGED <<store, mode, catIncr, cl>>

\* one pass of the inner loop: self.db.incr_feature_category(feature, category)
train_feature(t) ==
    /\ pc[t] = "run"
    /\ tr[t].fi <= Len(tr[t].features)
    /\ LET feature == tr[t].features[tr[t].fi]
           category == tr[t].categories[tr[t].ci]
       IN  store' = IF mode = "writer"
                    THEN incr_feature_category(store, feature, category)
                    ELSE store
    /\ tr' = [tr EXCEPT ![t] =
                 [after_feature(@) EXCEPT !.changed = @ \/ store' # store]]
    /\ cl' = Disturbed(cl, store' # store)
    /\ result' = NoResult
    /\ UNCHANGED <<mode, pc, calls, occ, catDocs, docs, catIncr>>

\* one increment of self.db.incr_category(category); after its last
\* increment the loop over categories moves on, or train returns
train_incr_category(t) ==
    /\ pc[t] = "run"
    /\ tr[t].fi > Len(tr[t].features)
    /\ LET category == tr[t].categories[tr[t].ci]
           key == incr_category_keys(category)[tr[t].ki]
           call == [after_category_increment(tr[t]) EXCEPT
                       !.changed = @ \/ store' # store]
       IN  /\ store' = IF mode = "writer" THEN increment(store, key, 1)
                       ELSE store
           /\ cl' = Disturbed(cl, store' # store)
           /\ catIncr' = IF mode = "writer" /\ key = CategoryKey(category)
                         THEN catIncr \cup {category}
                         ELSE catIncr
           /\ IF returns(call)
              THEN /\ tr' = [tr EXCEPT ![t] = NoCall]
                   /\ pc' = [pc EXCEPT ![t] = "idle"]
                   /\ result' = TrainResult(call)
              ELSE /\ tr' = [tr EXCEPT ![t] = call]
                   /\ result' = NoResult
                   /\ UNCHANGED pc
    /\ UNCHANGED <<mode, calls, occ, catDocs, docs>>

\* classify between two database reads: what the call does with the values
\* it holds, up to its next read

\* probabilities[category] = score, and the loop over the categories goes on
scored(c, score) ==
    [NoClassify EXCEPT !.features = c.features, !.limit = c.limit,
                       !.categories = c.categories, !.quiet = c.quiet,
                       !.probabilities = c.probabilities \cup {<<c.category, score>>},
                       !.at = IF c.categories = {} THEN "return" ELSE "next"]

\* a division by zero leaves classify as a ZeroDivisionError
raises(c) == [c EXCEPT !.at = "raise"]

\* cat_prob is known: document_probability starts on the features, and with
\* none its product is 1
cat_prob_known(c, cat_prob) ==
    IF Raised(cat_prob) THEN raises(c)
    ELSE IF c.features = <<>> THEN scored(c, RMul(RInt(1), cat_prob))
    ELSE [c EXCEPT !.cat_prob = cat_prob, !.cc = 0, !.fi = 1,
                   !.doc_prob = RInt(1), !.at = "feature_category_count"]

\* feature_probability has returned: get_feature_counts is next
initial_prob_known(c, initial_prob) ==
    IF Raised(initial_prob) THEN raises(c)
    ELSE [c EXCEPT !.initial_prob = initial_prob, !.fcc = 0, !.at = "match_prefix"]

\* get_feature_counts has returned: the weighted probability of the feature
\* joins the product; after the last feature the product times cat_prob is
\* the score
totals_known(c, totals) ==
    LET doc_prob == RMul(c.doc_prob,
                         weighted_average(c.initial_prob, totals, default_weight))
    IN  IF c.fi = Len(c.features)
        THEN scored(c, RMul(doc_prob, c.cat_prob))
        ELSE [c EXCEPT !.doc_prob = doc_prob, !.fi = @ + 1,
                       !.initial_prob = RInt(0), !.keys = {}, !.totals = 0,
                       !.at = "feature_category_count"]

\* one more record of the prefix scan is read and added up
key_read(c, key, num) ==
    IF c.keys = {key}
    THEN totals_known(c, c.totals + num)
    ELSE [c EXCEPT !.keys = @ \ {key}, !.totals = @ + num]

ClassifyResult(c) ==
    [NoResult EXCEPT !.op = "classify", !.mode = mode, !.features = c.features,
                     !.limit = c.limit, !.quiet = c.quiet]

\* the call goes on to its next read: the next category of the generator,
\* in whatever order the store lists them; or it ends, by sorting and
\* slicing the scores or by the exception
proceed(c) ==
    IF c.at = "return"
    THEN /\ \E out \in ranked(c.probabilities, c.limit) :
                result' = [ClassifyResult(c) EXCEPT !.value = out]
         /\ cl' = NoClassify
    ELSE IF c.at = "raise"
    THEN /\ result' = [ClassifyResult(c) EXCEPT !.raised = TRUE]
         /\ cl' = NoClassify
    ELSE IF c.at = "next"
    THEN /\ \E category \in c.categories :
                cl' = [c EXCEPT !.category = category,
                                !.categories = @ \ {category},
                                !.at = "total_count"]
         /\ result' = NoResult
    ELSE /\ cl' = c
         /\ result' = NoResult

\* NBC.classify(features, limit) is entered in a thread of its own; its
\* first read is the prefix scan of iter_categories
classify(features, limit) ==
    /\ cl.at = "idle"
    /\ mode # "closed"
    /\ LET categories == iter_categories(store)
       IN  proceed([NoClassify EXCEPT !.features = features, !.limit = limit,
                                      !.categories = categories,
                                      !.at = IF categories = {} THEN "return"
                                             ELSE "next"])
    /\ UNCHANGED <<store, mode, pc, tr, calls, occ, catDocs, docs, catIncr>>

\* weighted_document_probability: if self.db.total_count() == 0: return 0
classify_total_count ==
    /\ cl.at = "total_count"
    /\ proceed(IF total_count(store) = 0
               THEN scored(cl, RInt(0))
               ELSE [cl EXCEPT !.at = "category_count"])
    /\ UNCHANGED <<store, mode, pc, tr, calls, occ, catDocs, docs, catIncr>>

\* cat_prob: the read of self.db.category_count(category)
classify_category_count ==
    /\ cl.at = "category_count"
    /\ proceed([cl EXCEPT !.cc = category_count(store, cl.category),
                          !.at = "total_count_again"])
    /\ UNCHANGED <<store, mode, pc, tr, calls, occ, catDocs, docs, catIncr>>

\* cat_prob: the second read of self.db.total_count(), and the division
classify_total_count_again ==
    /\ cl.at = "total_count_again"
    /\ proceed(cat_prob_known(cl, Rat(cl.cc, total_count(store))))
    /\ UNCHANGED <<store, mode, pc, tr, calls, occ, catDocs, docs, catIncr>>

\* feature_probability: the read of get_feature_category_count
classify_feature_category_count ==
    /\ cl.at = "feature_category_count"
    /\ LET fcc == get_feature_category_count(store, cl.features[cl.fi],
                                             cl.category)
       IN  proceed(IF fcc # 0
                   THEN [cl EXCEPT !.fcc = fcc, !.at = "feature_probability"]
                   ELSE initial_prob_known(cl, RInt(0)))
    /\ UNCHANGED <<store, mode, pc, tr, calls, occ, catDocs, docs, catIncr>>

\* feature_probability: the read of category_count, and the division
classify_feature_probability ==
    /\ cl.at = "feature_probability"
    /\ proceed(initial_prob_known(cl,
                   Rat(cl.fcc, category_count(store, cl.category))))
    /\ UNCHANGED <<store, mode, pc, tr, calls, occ, catDocs, docs, catIncr>>

\* get_feature_counts: the prefix scan for the keys of the feature
classify_match_prefix ==
    /\ cl.at = "match_prefix"
    /\ LET keys == match_prefix(store,
                                FeatureCategoryKey(cl.features[cl.fi], <<>>))
       IN  proceed(IF keys = {}
                   THEN totals_known(cl, 0)
                   ELSE [cl EXCEPT !.keys = keys, !.totals = 0,
                                   !.at = "get_int"])
    /\ UNCHANGED <<store, mode, pc, tr, calls, occ, catDocs, docs, catIncr>>

\* get_feature_counts: the read of one of the keys found, in whatever order
\* the scan listed them
classify_get_int ==
    /\ cl.at = "get_int"
    /\ \E key \in cl.keys : proceed(key_read(cl, key, get_int(store, key)))
    /\ UNCHANGED <<store, mode, pc, tr, calls, occ, catDocs, docs, catIncr>>

\* NBC.close()
close ==
    /\ mode # "closed"
    /\ mode' = "closed"
    /\ UNCHANGED <<store, pc, tr, calls, occ, catDocs, docs, catIncr, cl,
                   result>>

\* NBC.connect(read_only) on the existing database file
connect(read_only) ==
    /\ mode = "closed"
    /\ mode' = IF read_only THEN "reader" ELSE "writer"
    /\ UNCHANGED <<store, pc, tr, calls, occ, catDocs, docs, catIncr, cl,
                   result>>

----------------------------------------------------------------------------
(* Specifications *)

\* trainer threads of one classifier in training mode, interleaved at each
\* database call
Next ==
    \/ \E t \in Threads, features \in TrainDocuments, categories \in CategoryArgs :
           train_begin(t, features, categories)
    \/ \E t \in Threads : train_feature(t)
    \/ \E t \in Threads : train_incr_category(t)

Spec == Init /\ [][Next]_vars

Trainer == {CHOOSE t \in Threads : TRUE}

\* one trainer thread and one classifying thread, interleaved at each
\* database call
NextClassify ==
    \/ \E t \in Trainer, features \in Documents, categories \in FewCategoryArgs :
           train_begin(t, features, categories)
    \/ \E t \in Trainer : train_feature(t)
    \/ \E t \in Trainer : train_incr_category(t)
    \/ \E features \in Queries, limit \in {MaxLimit} :
           classify(features, limit)
    \/ classify_total_count
    \/ classify_category_count
    \/ classify_total_count_again
    \/ classify_feature_category_count
    \/ classify_feature_probability
    \/ classify_match_prefix
    \/ classify_get_int

SpecClassify == Init /\ [][NextClassify]_vars

\* training with the handle closed and opened again in either mode
NextModes ==
    \/ \E t \in Trainer, features \in Documents, categories \in FewCategoryArgs :
           train_begin(t, features, categories)
    \/ \E t \in Trainer : train_feature(t)
    \/ \E t \in Trainer : train_incr_category(t)
    \/ close
    \/ \E read_only \in BOOLEAN : connect(read_only)

SpecModes == Init /\ [][NextModes]_vars

----------------------------------------------------------------------------
(* Properties *)

A == <<"a">>
B == <<"b">>
AB == <<"a", ".", "b">>
S == <<"s">>
H == <<"h">>
BS == <<"b", ".", "s">>

\* no train call is in progress: every call made has completed
AllIdle == \A t \in Threads : pc[t] = "idle"

TrainedFeatures == {f \in FeatureNames : \E c \in CategoryNames : occ[f][c] > 0}

TrainedCategories == {c \in CategoryNames : catDocs[c] > 0}

NoDotTrained ==
    /\ \A f \in TrainedFeatures : ~HasDot(f)
    /\ \A c \in TrainedCategories : ~HasDot(c)

SumCategoryCounts(db) ==
    LET cats == iter_categories(db)
    IN  SumOver([c \in cats |-> category_count(db, c)], cats)

\* C1: once the train calls made have completed, and provided no trained
\* feature and no trained category contains '.', the feature-category count
\* read back for every dot-free (feature, category) pair is the number of
\* occurrences of the feature trained for the category, 0 when the pair was
\* never trained.
C1_FeatureCategoryCountIsOccurrences ==
    (AllIdle /\ NoDotTrained) =>
        \A f \in FeatureNames, c \in CategoryNames :
            (~HasDot(f) /\ ~HasDot(c)) =>
                get_feature_category_count(store, f, c) = occ[f][c]

C1_Witness ==
    /\ AllIdle
    /\ NoDotTrained
    /\ occ[A][S] >= 2
    /\ occ[B][S] = 1
    /\ get_feature_category_count(store, A, S) = occ[A][S]
    /\ get_feature_category_count(store, B, S) = 1
    /\ get_feature_category_count(store, A, H) = 0

\* C2: in every state reached by completed train calls the total count
\* equals the sum of the category counts of the categories iter_categories
\* lists.
C2_TotalIsSumOfCategories ==
    AllIdle => total_count(store) = SumCategoryCounts(store)

C2_Witness ==
    /\ AllIdle
    /\ total_count(store) = 3
    /\ Cardinality(iter_categories(store)) = 2
    /\ SumCategoryCounts(store) = 3

\* C3: once the train calls made have completed, the total count equals the
\* number of category arguments over all of them, whatever number of
\* features each call supplied.
C3_TotalIsDocuments ==
    AllIdle => total_count(store) = docs

C3_Witness ==
    /\ AllIdle
    /\ docs = 3
    /\ total_count(store) = 3
    /\ TrainedFeatures = {}

\* C4: after any sequence of train calls, for every feature,
\* get_feature_counts returns the sum over the categories of its
\* feature-category counts, which is the number of its occurrences over all
\* train calls.
C4_FeatureCountsIsOccurrences ==
    AllIdle =>
        \A f \in FeatureNames :
            /\ get_feature_counts(store, f) =
                   SumOver([c \in CategoryNames |->
                               get_feature_category_count(store, f, c)],
                           CategoryNames)
            /\ get_feature_counts(store, f) =
                   SumOver([c \in CategoryNames |-> occ[f][c]], CategoryNames)

Listed(out) == {out[i][1] : i \in 1..Len(out)}

\* C5: classify returns at most limit (category, score) pairs with pairwise
\* distinct categories, by non-increasing score, the categories being among
\* those whose counter has ever been incremented; and when classify runs
\* after the increments made so far, none reaching the store during the call,
\* each score is weighted_document_probability of the features for the
\* category, every such category is listed when limit is at least their
\* number, and no omitted one scores above a listed one.
C5_ClassifyRanksKnownCategories ==
    result.op = "classify" =>
        LET out == result.value
            score(c) == weighted_document_probability(store, result.features, c)
        IN  /\ ~result.raised
            /\ Len(out) <= result.limit
            /\ \A i, j \in 1..Len(out) : i # j => out[i][1] # out[j][1]
            /\ \A i, j \in 1..Len(out) : i < j => ~RLess(out[i][2], out[j][2])
            /\ Listed(out) \subseteq catIncr
            /\ result.quiet =>
                   /\ \A i \in 1..Len(out) : out[i][2] = score(out[i][1])
                   /\ result.limit >= Cardinality(catIncr) =>
                          Listed(out) = catIncr
                   /\ \A c \in catIncr \ Listed(out) :
                          \A i \in 1..Len(out) : ~RLess(out[i][2], score(c))

C5_Witness ==
    /\ AllIdle
    /\ result.op = "classify"
    /\ result.quiet
    /\ result.features # <<>>
    /\ result.limit = 2
    /\ Len(result.value) = 2
    /\ Cardinality(catIncr) = 3
    /\ RLess(result.value[2][2], result.value[1][2])
    /\ \E c \in catIncr \ Listed(result.value) :
           RLess(weighted_document_probability(store, result.features, c),
                 result.value[2][2])

\* C6: after any sequence of train calls feature_probability lies in [0, 1]
\* for every feature and category: the feature-category count never exceeds
\* the category count.
C6_FeatureProbabilityInUnitInterval ==
    AllIdle =>
        \A f \in FeatureNames, c \in CategoryNames :
            LET p == feature_probability(store, f, c)
            IN  /\ ~Raised(p)
                /\ RLeq(RInt(0), p)
                /\ RLeq(p, RInt(1))
                /\ get_feature_category_count(store, f, c)
                       <= category_count(store, c)

\* C7: in every reachable state of the store feature_probability returns 0,
\* and does not raise, whenever the category count is 0 or the feature-
\* category count is 0; no state has a nonzero feature-category count with
\* a zero category count.
C7_FeatureProbabilityGuard ==
    \A f \in FeatureNames, c \in CategoryNames :
        /\ (category_count(store, c) = 0
                \/ get_feature_category_count(store, f, c) = 0) =>
               feature_probability(store, f, c) = RInt(0)
        /\ ~(get_feature_category_count(store, f, c) # 0
                /\ category_count(store, c) = 0)

\* C8: a train call on a handle opened read-only raises an error to its
\* caller and leaves every counter unchanged.
C8_ReadOnlyTrainRaises ==
    (result.op = "train" /\ result.mode = "reader") =>
        (result.raised /\ ~result.changed)

\* C9: on an empty store weighted_document_probability is 0 for every
\* feature sequence and category, and classify returns the empty sequence.
C9_EmptyStoreScoresNothing ==
    total_count(store) = 0 =>
        /\ \A features \in Documents, c \in CategoryNames :
               weighted_document_probability(store, features, c) = RInt(0)
        /\ \A features \in Queries, limit \in 0..MaxLimit :
               classify_results(store, features, limit) = {<<>>}
        /\ result.op = "classify" => (~result.raised /\ result.value = <<>>)

C9_Witness ==
    /\ total_count(store) = 0
    /\ result.op = "classify"
    /\ result.features # <<>>
    /\ result.limit >= 1
    /\ ~result.raised
    /\ result.value = <<>>

\* C10: with concurrent trainers, the total count is the sum of the category
\* counts plus the number of incr_category calls that have incremented the
\* total and not yet their category; so they agree when none is in progress.
HalfDone == {t \in Threads : pc[t] = "run" /\ tr[t].ki > 1}

C10_TotalLeadsByCallsInProgress ==
    /\ total_count(store) >= SumCategoryCounts(store)
    /\ total_count(store) = SumCategoryCounts(store) + Cardinality(HalfDone)

C10_Witness ==
    /\ Cardinality(HalfDone) = 2
    /\ total_count(store) = SumCategoryCounts(store) + 2
    /\ SumCategoryCounts(store) >= 1

====
